---- MODULE Spec2Model ----
(***************************************************************************)
(* Model of ai-review-insight: app/domains/review_insight/service.py.      *)
(*                                                                         *)
(* Text is a sequence of characters; a character is a one-element string.  *)
(* ASCII characters stand for themselves.  A Hangul syllable is one        *)
(* character, written as its romanisation in capitals with at least two    *)
(* letters ("DA" is U+B2E4, "EUM" is U+C74C, ...), so that it can never be *)
(* confused with a Latin letter.  "SPM" is U+2581, the sentencepiece       *)
(* sub-word marker, and "BQ" is the backquote U+0060.                      *)
(***************************************************************************)
EXTENDS Integers, Sequences, FiniteSets, TLC

(***************************************************************************)
(* Characters and character classes                                        *)
(***************************************************************************)
\* str.isspace / regex \s, restricted to the whitespace the inputs contain.
WS == {" ", "\t", "\n", "\r"}

\* The line boundaries str.splitlines() splits on (among the inputs' characters).
LineBreaks == {"\n", "\r"}

\* Characters that are not regex \w (letters, digits, underscore).
NonWord == WS \cup {".", "!", "?", ",", ":", "BQ", "<", ">", "/", "#", "SPM"}

IsWordChar(c) == c \notin NonWord

\* str.lower() on one character: Latin capitals fold, everything else
\* (Hangul, digits, punctuation) is left alone.
LowerChar(c) ==
  CASE c = "A" -> "a" [] c = "B" -> "b" [] c = "C" -> "c" [] c = "D" -> "d"
    [] c = "E" -> "e" [] c = "F" -> "f" [] c = "G" -> "g" [] c = "H" -> "h"
    [] c = "I" -> "i" [] c = "J" -> "j" [] c = "K" -> "k" [] c = "L" -> "l"
    [] c = "M" -> "m" [] c = "N" -> "n" [] c = "O" -> "o" [] c = "P" -> "p"
    [] c = "Q" -> "q" [] c = "R" -> "r" [] c = "S" -> "s" [] c = "T" -> "t"
    [] c = "U" -> "u" [] c = "V" -> "v" [] c = "W" -> "w" [] c = "X" -> "x"
    [] c = "Y" -> "y" [] c = "Z" -> "z" [] OTHER -> c

Lower(s) == [i \in 1..Len(s) |-> LowerChar(s[i])]

(***************************************************************************)
(* String primitives (str.strip, str.startswith, str.replace, str.join,    *)
(* str.split, re.sub(r"\s+", " ", .))                                      *)
(***************************************************************************)
SetMin(S) == CHOOSE x \in S : \A y \in S : x <= y
SetMax(S) == CHOOSE x \in S : \A y \in S : x >= y

\* s[a..b], empty when the range is empty or leaves the string.
Slice(s, a, b) == IF a < 1 \/ b > Len(s) \/ a > b THEN <<>> ELSE SubSeq(s, a, b)

\* s[a:] of Python, 1-based.
From(s, a) == IF a > Len(s) THEN <<>> ELSE SubSeq(s, a, Len(s))

\* str.strip()
Strip(s) ==
  LET idx == {i \in 1..Len(s) : s[i] \notin WS}
  IN  IF idx = {} THEN <<>> ELSE SubSeq(s, SetMin(idx), SetMax(idx))

\* str.startswith
StartsWith(s, p) == Len(s) >= Len(p) /\ SubSeq(s, 1, Len(p)) = p

\* p occurs in s at position i
MatchAt(s, i, p) == i >= 1 /\ i + Len(p) - 1 <= Len(s) /\ SubSeq(s, i, i + Len(p) - 1) = p

\* str.replace(pat, rep): leftmost, non-overlapping occurrences.
RECURSIVE Replace(_, _, _)
Replace(s, pat, rep) ==
  IF Len(s) < Len(pat) THEN s
  ELSE IF MatchAt(s, 1, pat) THEN rep \o Replace(From(s, Len(pat) + 1), pat, rep)
  ELSE <<Head(s)>> \o Replace(Tail(s), pat, rep)

\* The length of the run of characters of C that starts s.
RECURSIVE RunLen(_, _)
RunLen(s, C) == IF s = <<>> \/ Head(s) \notin C THEN 0 ELSE 1 + RunLen(Tail(s), C)

\* re.sub(r"[C]{n,}", " ", s): every maximal run of at least n characters of C
\* becomes one space; shorter runs stay.
RECURSIVE SubRuns(_, _, _)
SubRuns(s, C, n) ==
  IF s = <<>> THEN <<>>
  ELSE LET k == RunLen(s, C)
       IN  IF k >= n THEN <<" ">> \o SubRuns(From(s, k + 1), C, n)
           ELSE IF k > 0 THEN SubSeq(s, 1, k) \o SubRuns(From(s, k + 1), C, n)
           ELSE <<Head(s)>> \o SubRuns(Tail(s), C, n)

\* re.sub(r"\s+", " ", s)
CollapseWS(s) == SubRuns(s, WS, 1)

\* The pieces of s between the characters of Seps (empty pieces included).
RECURSIVE SplitOn(_, _)
SplitOn(s, Seps) ==
  LET idx == {i \in 1..Len(s) : s[i] \in Seps}
  IN  IF idx = {} THEN <<s>>
      ELSE LET i == SetMin(idx)
           IN  <<Slice(s, 1, i - 1)>> \o SplitOn(From(s, i + 1), Seps)

\* sep.join(parts)
RECURSIVE Join(_, _)
Join(parts, sep) ==
  IF parts = <<>> THEN <<>>
  ELSE IF Len(parts) = 1 THEN parts[1]
  ELSE parts[1] \o sep \o Join(Tail(parts), sep)

NonEmpty(x) == x # <<>>

\* str.split(): the maximal runs of non-whitespace.
SplitWS(s) == SelectSeq(SplitOn(s, WS), NonEmpty)

\* str.splitlines(); a trailing line break opens no last empty line, and the
\* caller drops blank lines anyway.
SplitLines(s) == SplitOn(s, LineBreaks)

\* service.py: _normalize_whitespace
normalize_whitespace(s) == Strip(Join(SplitWS(s), <<" ">>))

(***************************************************************************)
(* TextSanitizer: _sanitize_text                                           *)
(***************************************************************************)
FENCE == <<"BQ", "BQ", "BQ">>

\* The least j >= 1 with FENCE at s[j..j+2], or 0.
FirstFence(s) ==
  LET idx == {j \in 1..Len(s) : MatchAt(s, j, FENCE)}
  IN  IF idx = {} THEN 0 ELSE SetMin(idx)

\* re.sub(r"```.*?```", " ", t, flags=re.DOTALL): from the left, an opening
\* fence with the nearest closing fence after it becomes one space; an opening
\* fence that is never closed stays.
RECURSIVE RemoveFences(_)
RemoveFences(s) ==
  IF Len(s) < 3 THEN s
  ELSE IF MatchAt(s, 1, FENCE)
       THEN LET rest == From(s, 4)
                j == FirstFence(rest)
            IN  IF j = 0 THEN <<Head(s)>> \o RemoveFences(Tail(s))
                ELSE <<" ">> \o RemoveFences(From(rest, j + 3))
       ELSE <<Head(s)>> \o RemoveFences(Tail(s))

\* Lines 77-83: code fences, backquote runs, model tokens, heading noise.
StripNoise(t) ==
  LET t1 == RemoveFences(t)
      t2 == SubRuns(t1, {"BQ"}, 1)
      t3 == Replace(Replace(t2, <<"<", "s", ">">>, <<" ">>), <<"<", "/", "s", ">">>, <<" ">>)
      t4 == Replace(t3, <<"SPM">>, <<" ">>)
  IN  SubRuns(t4, {"#"}, 2)

drop_prefixes == {
  <<"p","r","o","m","p","t",":">>,
  <<"i","n","s","t","r","u","c","t","i","o","n",":">>,
  <<"s","y","s","t","e","m",":">>,
  <<"a","s","s","i","s","t","a","n","t",":">>,
  <<"u","s","e","r",":">>,
  <<"YO","YAK",":">>,
  <<"YO","YAK","HAE">>,
  <<"YO","YAK","HAE","JWO">>,
  <<"YO","YAK","HAE"," ","JU","SE","YO">>,
  <<"YO","YAK","HAE","JU","SE","YO">>,
  <<"JI","SI",":">>,
  <<"MYEONG","RYEONG",":">>,
  <<"r","o","l","e",":">>,
  <<"r","e","s","p","o","n","s","e",":">>,
  <<"o","u","t","p","u","t",":">>,
  <<"i","n","p","u","t",":">>,
  <<"GYEOL","GWA",":">>,
  <<"YO","YAK"," ","GYEOL","GWA",":">>,
  <<"YO","YAK","GYEOL","GWA",":">>,
  <<"JEONG","RI",":">>,
  <<"JEONG","RI","HAE">>,
  <<"JEONG","RI","HAE","JWO">> }

\* The anchors of the two instructive patterns (lines 106 and 108).
Demonstratives == {<<"DA","EUM">>, <<"AH","RAE">>}
SummarizeTerms == {<<"YO","YAK">>, <<"JEONG","RI">>}
ImperativeEndings == {<<"HAE","JWO">>, <<"HAE","JU","SE","YO">>, <<"HA","SE","YO">>}

\* The {0,10} of both patterns.
GapMax == 10

\* re.search(r"(A).{0,GapMax}(B)", line): a member of A, then at most GapMax
\* characters other than a newline, then a member of B.
SearchGap(line, A, B) ==
  \E a \in A, b \in B :
    \E i \in 1..Len(line), j \in 1..Len(line) :
      /\ MatchAt(line, i, a)
      /\ j >= i + Len(a)
      /\ j - (i + Len(a)) <= GapMax
      /\ MatchAt(line, j, b)
      /\ \A k \in (i + Len(a))..(j - 1) : line[k] # "\n"

\* Mutant: the prefix test made on the line as written, not lowercased.
IsDroppedLineCaseSensitive(line) ==
  \/ \E p \in drop_prefixes : StartsWith(line, p)
  \/ SearchGap(line, Demonstratives, SummarizeTerms)
  \/ SearchGap(line, SummarizeTerms, ImperativeEndings)

\* Lines 101-109: the tests that drop a (trimmed, non-blank) line.
IsDroppedLine(line) ==
  \/ \E p \in drop_prefixes : StartsWith(Lower(line), p)
  \/ SearchGap(line, Demonstratives, SummarizeTerms)
  \/ SearchGap(line, SummarizeTerms, ImperativeEndings)

\* Lines 93-112: the surviving lines, trimmed, in order.
RECURSIVE FilterLines(_)
FilterLines(raws) ==
  IF raws = <<>> THEN <<>>
  ELSE LET line == Strip(Head(raws))
           rest == FilterLines(Tail(raws))
       IN  IF line = <<>> THEN rest
           ELSE IF IsDroppedLine(line) THEN rest
           ELSE <<line>> \o rest

\* The "too short" threshold of line 121.
MinCleanLen == 2

sanitize_text(text) ==
  LET t == Strip(text)
  IN  IF t = <<>> THEN <<>>
      ELSE LET lines == FilterLines(SplitLines(StripNoise(t)))
               cleaned == Strip(CollapseWS(Join(lines, <<" ">>)))
           IN  IF Len(cleaned) < MinCleanLen THEN <<>> ELSE cleaned

(***************************************************************************)
(* Deduplicator and CorpusBuilder                                          *)
(***************************************************************************)
\* Mutant: duplicates recognised on the entry as given, not on its trimmed key.
RECURSIVE DedupeLoopRawKey(_, _, _)
DedupeLoopRawKey(items, seen, out) ==
  IF items = <<>> THEN out
  ELSE LET x == Head(items)
       IN  IF Strip(x) = <<>> THEN DedupeLoopRawKey(Tail(items), seen, out)
           ELSE IF x \in seen THEN DedupeLoopRawKey(Tail(items), seen, out)
           ELSE DedupeLoopRawKey(Tail(items), seen \cup {x}, Append(out, x))

\* The loop of _dedupe_keep_order: `seen` holds the trimmed keys met so far,
\* `out` the entries kept.
RECURSIVE DedupeLoop(_, _, _)
DedupeLoop(items, seen, out) ==
  IF items = <<>> THEN out
  ELSE LET x == Head(items)
           key == Strip(x)
       IN  IF key = <<>> THEN DedupeLoop(Tail(items), seen, out)
           ELSE IF key \in seen THEN DedupeLoop(Tail(items), seen, out)
           ELSE DedupeLoop(Tail(items), seen \cup {key}, Append(out, x))

dedupe_keep_order(items) == DedupeLoop(items, {}, <<>>)

\* "summarize: "
TASK_PREFIX == <<"s","u","m","m","a","r","i","z","e",":"," ">>

add_t5_task_prefix(corpus) ==
  LET c == Strip(corpus)
  IN  IF c = <<>> THEN <<>> ELSE TASK_PREFIX \o c

\* The character budget of the corpus (1800 in service.py:183), scaled down so
\* that a handful of short comments exceed it.
CorpusBudget == 9

\* "\n\n".join
PARA_SEP == <<"\n", "\n">>

\* Lines 163-170: the sanitized, normalized, non-empty comments, in order.
RECURSIVE CollectParts(_)
CollectParts(comments) ==
  IF comments = <<>> THEN <<>>
  ELSE LET c == normalize_whitespace(sanitize_text(Head(comments)))
       IN  IF c # <<>> THEN <<c>> \o CollectParts(Tail(comments))
           ELSE CollectParts(Tail(comments))

\* Mutant: the length limit left out.
TruncateNever(corpus) == corpus

\* corpus[:CorpusBudget] when the corpus is longer (lines 183-184).
Truncate(corpus) ==
  IF Len(corpus) > CorpusBudget THEN SubSeq(corpus, 1, CorpusBudget) ELSE corpus

\* _build_summary_input, on the comments of the reviews.
build_summary_input(comments) ==
  LET parts == CollectParts(comments)
  IN  IF parts = <<>> THEN <<>>
      ELSE add_t5_task_prefix(Truncate(Join(dedupe_keep_order(parts), PARA_SEP)))

(***************************************************************************)
(* RatingAggregator                                                        *)
(***************************************************************************)
RECURSIVE SumSeq(_)
SumSeq(xs) == IF xs = <<>> THEN 0 ELSE Head(xs) + SumSeq(Tail(xs))

\* An average is kept as the exact quotient num/den (den > 0).  The float
\* quotient of a sum of at most 50 ratings of 1..5 by their count compares
\* with 4.0 and 2.0 as the exact quotient does: a quotient other than 4 or 2
\* differs from it by at least 1/50.
AvgGE(avg, k) == avg.num >= k * avg.den
AvgLE(avg, k) == avg.num <= k * avg.den

\* Mutant: the upper threshold taken as exclusive.
tone_from_rating_exclusive(avg) ==
  IF ~AvgLE(avg, 4) THEN "POSITIVE"
  ELSE IF AvgLE(avg, 2) THEN "NEGATIVE"
  ELSE "NEUTRAL"

tone_from_rating(avg) ==
  IF AvgGE(avg, 4) THEN "POSITIVE"
  ELSE IF AvgLE(avg, 2) THEN "NEGATIVE"
  ELSE "NEUTRAL"

aggregate_tone(ratings) ==
  IF ratings = <<>> THEN "NEUTRAL"
  ELSE tone_from_rating([num |-> SumSeq(ratings), den |-> Len(ratings)])

\* _TONE_TO_KR with its .get default; the labels are romanised.
TONE_TO_KR(tone) ==
  CASE tone = "POSITIVE" -> "geungjeongjeok"
    [] tone = "NEUTRAL"  -> "jungnip"
    [] tone = "NEGATIVE" -> "bujeongjeok"
    [] OTHER -> "jungnip"

(***************************************************************************)
(* SummaryPostProcessor                                                    *)
(***************************************************************************)
\* [.!?]
Terminators == {".", "!", "?"}

\* [.,!?]
Punctuation == {".", ",", "!", "?"}

\* re.split(r"(\n+|[.!?]+)", s): sentence, separator, sentence, ..., sentence.
RECURSIVE PoliteSplit(_)
PoliteSplit(s) ==
  LET idx == {i \in 1..Len(s) : s[i] = "\n" \/ s[i] \in Terminators}
  IN  IF idx = {} THEN <<s>>
      ELSE LET i == SetMin(idx)
               cls == IF s[i] = "\n" THEN {"\n"} ELSE Terminators
               k == RunLen(From(s, i), cls)
           IN  <<Slice(s, 1, i - 1), SubSeq(s, i, i + k - 1)>> \o PoliteSplit(From(s, i + k))

\* The formal endings of line 226.
FormalEndings == {
  <<"SEUP","NI","DA">>, <<"HAP","NI","DA">>, <<"DOEP","NI","DA">>,
  <<"YI","EH","YO">>, <<"YE","YO">>, <<"SE","YO">> }

\* re.search(r"(...)\b", t): a formal ending followed by a word boundary, that
\* is, by the end of t or by a character that is not \w.
HasFormalEnding(t) ==
  \E e \in FormalEndings : \E i \in 1..Len(t) :
    /\ MatchAt(t, i, e)
    /\ (i + Len(e) > Len(t) \/ ~IsWordChar(t[i + Len(e)]))

\* The suffix rules of lines 230-239, in order: <<plain ending, formal ending>>.
SuffixRules == <<
  << <<"YI","DA">>,              <<"IP","NI","DA">> >>,
  << <<"GAT","DA">>,             <<"GAT","SEUP","NI","DA">> >>,
  << <<"DOEN","DA">>,            <<"DOEP","NI","DA">> >>,
  << <<"HAN","DA">>,             <<"HAP","NI","DA">> >>,
  << <<"PIL","YO","HA","DA">>,   <<"PIL","YO","HAP","NI","DA">> >>,
  << <<"JOH","DA">>,             <<"JOH","SEUP","NI","DA">> >>,
  << <<"NA","PPEU","DA">>,       <<"NA","PPEUP","NI","DA">> >>,
  << <<"MANH","DA">>,            <<"MANH","SEUP","NI","DA">> >>,
  << <<"JEOK","DA">>,            <<"JEOK","SEUP","NI","DA">> >>,
  << <<"HAE">>,                  <<"HAP","NI","DA">> >> >>

EndsWith(t, p) == Len(t) >= Len(p) /\ SubSeq(t, Len(t) - Len(p) + 1, Len(t)) = p

\* re.sub(r"P$", R, t) on a text without a trailing newline.
SubAtEnd(t, rule) ==
  IF EndsWith(t, rule[1]) THEN Slice(t, 1, Len(t) - Len(rule[1])) \o rule[2] ELSE t

\* Rules k..Len(SuffixRules) applied one after the other.
RECURSIVE ApplyRules(_, _)
ApplyRules(t, k) ==
  IF k > Len(SuffixRules) THEN t ELSE ApplyRules(SubAtEnd(t, SuffixRules[k]), k + 1)

EndsWithTerminator(t) == t # <<>> /\ t[Len(t)] \in Terminators

polite_sentence(x) ==
  LET t == Strip(x)
  IN  IF t = <<>> THEN <<>>
      ELSE IF HasFormalEnding(t) THEN t
      ELSE LET u == ApplyRules(t, 1)
           IN  IF EndsWithTerminator(u) THEN u ELSE Append(u, ".")

\* The loop of lines 246-256 over parts[i], parts[i+1], from i (1-based, odd).
RECURSIVE PoliteLoop(_, _)
PoliteLoop(parts, i) ==
  IF i > Len(parts) THEN <<>>
  ELSE LET sentence == parts[i]
           sep == IF i + 1 <= Len(parts) THEN parts[i + 1] ELSE <<>>
           polished == polite_sentence(sentence)
           first == IF polished # <<>> THEN <<polished>> ELSE <<>>
           second == IF sep # <<>> /\ ~EndsWithTerminator(polished) THEN <<sep>> ELSE <<>>
       IN  first \o second \o PoliteLoop(parts, i + 2)

\* x.strip() for x in out if x.strip()
RECURSIVE StripAll(_)
StripAll(out) ==
  IF out = <<>> THEN <<>>
  ELSE IF Strip(Head(out)) = <<>> THEN StripAll(Tail(out))
  ELSE <<Strip(Head(out))>> \o StripAll(Tail(out))

convert_to_polite(text) ==
  LET s == Strip(text)
  IN  IF s = <<>> THEN <<>>
      ELSE Strip(CollapseWS(Join(StripAll(PoliteLoop(PoliteSplit(s), 1)), <<" ">>)))

\* re.sub(r"\s+([.,!?])", r"\1", s): a whitespace run right before a
\* punctuation mark is removed.
RECURSIVE DropSpaceBeforePunct(_)
DropSpaceBeforePunct(s) ==
  IF s = <<>> THEN <<>>
  ELSE LET k == RunLen(s, WS)
       IN  IF k > 0
           THEN IF k < Len(s) /\ s[k + 1] \in Punctuation
                THEN DropSpaceBeforePunct(From(s, k + 1))
                ELSE SubSeq(s, 1, k) \o DropSpaceBeforePunct(From(s, k + 1))
           ELSE <<Head(s)>> \o DropSpaceBeforePunct(Tail(s))

\* re.sub(r"([.!?])([^\s])", r"\1 \2", s): left to right, a match consumes
\* both characters.
RECURSIVE SpaceAfterTerminator(_)
SpaceAfterTerminator(s) ==
  IF Len(s) < 2 THEN s
  ELSE IF s[1] \in Terminators /\ s[2] \notin WS
       THEN <<s[1], " ", s[2]>> \o SpaceAfterTerminator(From(s, 3))
       ELSE <<Head(s)>> \o SpaceAfterTerminator(Tail(s))

finalize_punctuation_spacing(text) ==
  LET s == Strip(text)
  IN  IF s = <<>> THEN <<>>
      ELSE Strip(CollapseWS(SpaceAfterTerminator(DropSpaceBeforePunct(s))))

\* The word pairs between which the Spacing Corrector finds a missing word
\* boundary.  Kiwi is an external library: it is taken as a corrector that only
\* inserts boundaries and leaves corrected text unchanged.
SpacingPairs == {<<"x", "y">>}

\* _KIWI.space(s, reset_whitespace=False)
RECURSIVE KiwiSpace(_)
KiwiSpace(s) ==
  IF Len(s) < 2 THEN s
  ELSE IF <<s[1], s[2]>> \in SpacingPairs
       THEN <<s[1], " ">> \o KiwiSpace(Tail(s))
       ELSE <<Head(s)>> \o KiwiSpace(Tail(s))

fix_korean_spacing(text) ==
  LET s == Strip(text)
  IN  IF s = <<>> THEN <<>> ELSE KiwiSpace(s)

\* Lines 333-340: the post-processing chain of summarize_reviews.
PostProcess(raw) ==
  LET s0 == Strip(raw)
      s1 == normalize_whitespace(s0)
      s2 == convert_to_polite(s1)
      s3 == normalize_whitespace(s2)
      s4 == fix_korean_spacing(s3)
  IN  finalize_punctuation_spacing(s4)

(***************************************************************************)
(* Validation                                                              *)
(***************************************************************************)
\* settings.MAX_REVIEWS and settings.MAX_COMMENT_LEN are read from the
\* environment (config.py:29-30; defaults 50 and 500).
MAX_REVIEWS == 2
MAX_COMMENT_LEN == 6

NoError == [status |-> 200, limit |-> "none", value |-> 0]

\* The index of the first comment that is too long, or 0.
FirstTooLong(rs) ==
  LET idx == {i \in 1..Len(rs) : Len(Strip(rs[i].comment)) > MAX_COMMENT_LEN}
  IN  IF idx = {} THEN 0 ELSE SetMin(idx)

\* Mutant: the comment limit taken as exclusive (>= for >).
validate_reviews_off_by_one(rs) ==
  IF Len(rs) > MAX_REVIEWS
  THEN [status |-> 400, limit |-> "reviews exceeds limit", value |-> MAX_REVIEWS]
  ELSE IF \E i \in 1..Len(rs) : Len(Strip(rs[i].comment)) >= MAX_COMMENT_LEN
  THEN [status |-> 400, limit |-> "comment too long", value |-> MAX_COMMENT_LEN]
  ELSE NoError

\* _validate_reviews: the HTTPException it raises, or NoError.  `value` is the
\* number the detail message carries.
validate_reviews(rs) ==
  IF Len(rs) > MAX_REVIEWS
  THEN [status |-> 400, limit |-> "reviews exceeds limit", value |-> MAX_REVIEWS]
  ELSE IF FirstTooLong(rs) # 0
  THEN [status |-> 400, limit |-> "comment too long", value |-> MAX_COMMENT_LEN]
  ELSE NoError

(***************************************************************************)
(* State                                                                   *)
(***************************************************************************)
VARIABLES
  pc,            \* where the request handler (router.analyze) stands
  reviews,       \* the request: a sequence of [rating, comment]
  mood,          \* analyze's local `mood` ("" before it is set)
  document,      \* summarize_reviews' local `input_text`
  rawSummary,    \* the Oracle's summary_text
  summary,       \* summarize_reviews' result
  response,      \* the ReviewAnalyzeResponse, or NoResponse
  error,         \* the exception that left the handler, or NoError
  sanitized,     \* comments passed to _sanitize_text for this request
  oracleArgs,    \* the documents the Oracle was invoked with for this request
  built,         \* pipelines built for this request
  SUMMARIZER,    \* the module global _SUMMARIZER: 0 is None, k the k-th pipeline built
  constructions, \* pipelines built in this process
  tpc,           \* per thread: its place in get_summarizer
  tlocal,        \* per thread: the pipeline it built and has not stored yet
  tgot,          \* per thread: what get_summarizer returned to it (0: nothing yet)
  phase,         \* unit drivers: "input", "applied", "reapplied"
  arg,           \* unit drivers: the input
  res,           \* unit drivers: the result
  res2           \* unit drivers: the result of applying the operation to res

requestVars == <<pc, reviews, mood, document, rawSummary, summary, response, error,
                 sanitized, oracleArgs, built>>
globalVars == <<SUMMARIZER, constructions>>
threadVars == <<tpc, tlocal, tgot>>
unitVars == <<phase, arg, res, res2>>
vars == <<requestVars, globalVars, threadVars, unitVars>>

NoResponse == [mood |-> "", insightSummary |-> <<"none">>]

\* The number of threads of the lazy-initialization model.
NThreads == 3
Threads == 1..NThreads

RequestIdle ==
  /\ pc = "IDLE" /\ reviews = <<>> /\ mood = "" /\ document = <<>>
  /\ rawSummary = <<>> /\ summary = <<>> /\ response = NoResponse
  /\ error = NoError /\ sanitized = 0 /\ oracleArgs = <<>> /\ built = 0

ThreadsIdle ==
  /\ tpc = [t \in Threads |-> "idle"]
  /\ tlocal = [t \in Threads |-> 0]
  /\ tgot = [t \in Threads |-> 0]

UnitIdle == phase = "off" /\ arg = <<>> /\ res = <<>> /\ res2 = <<>>

\* Module import: _SUMMARIZER = None (service.py:30).
GlobalInit == SUMMARIZER = 0 /\ constructions = 0

(***************************************************************************)
(* The request handler: router.analyze -> ReviewInsightService.analyze     *)
(***************************************************************************)
Filler(n) == [i \in 1..n |-> "x"]

\* The comments a request draws from: a genuine one of exactly the allowed
\* length inside surrounding blanks, a short genuine one, one that is only an
\* injected instruction, and one that is one character too long.
PaddedComment == <<" ">> \o Filler(MAX_COMMENT_LEN) \o <<" ">>
ShortComment == <<"JOH", "EUN", " ", "GANG", "UI">>
InjectedComment == <<"u", "s", "e", "r", ":", "x">>
LongComment == Filler(MAX_COMMENT_LEN + 1)
CommentPool == {PaddedComment, ShortComment, InjectedComment, LongComment}

\* Ratings are 1..5 (schema.py:10).
RatingPool == 1..5

ReviewPool == [rating : RatingPool, comment : CommentPool]

\* Requests of up to one review more than MAX_REVIEWS.
Requests == UNION {[1..n -> ReviewPool] : n \in 0..(MAX_REVIEWS + 1)}

\* What the Oracle may return as summary_text.
OracleOutputs == {
  <<"JOH", "DA">>,
  <<" ", "JOH", "SEUP", "NI", "DA", ".", "x", "y">>,
  <<>> }

Comments(rs) == [i \in 1..Len(rs) |-> rs[i].comment]
Ratings(rs) == [i \in 1..Len(rs) |-> rs[i].rating]

\* A request arrives (router.py:17-18).
Receive ==
  /\ pc = "IDLE"
  /\ \E rs \in Requests : reviews' = rs
  /\ pc' = "RECEIVED"
  /\ UNCHANGED <<mood, document, rawSummary, summary, response, error, sanitized,
                 oracleArgs, built, globalVars, threadVars, unitVars>>

\* analyze, line 346.
Validate ==
  /\ pc = "RECEIVED"
  /\ LET e == validate_reviews(reviews)
     IN  IF e # NoError
         THEN pc' = "REJECTED" /\ error' = e
         ELSE pc' = "VALIDATED" /\ error' = error
  /\ UNCHANGED <<reviews, mood, document, rawSummary, summary, response, sanitized,
                 oracleArgs, built, globalVars, threadVars, unitVars>>

\* analyze, lines 349-350.
ComputeMood ==
  /\ pc = "VALIDATED"
  /\ mood' = TONE_TO_KR(aggregate_tone(Ratings(reviews)))
  /\ pc' = "MOOD_SET"
  /\ UNCHANGED <<reviews, document, rawSummary, summary, response, error, sanitized,
                 oracleArgs, built, globalVars, threadVars, unitVars>>

\* Mutant: no short-circuit on the empty document.
BuildCorpusAlwaysCalls ==
  /\ pc = "MOOD_SET"
  /\ document' = build_summary_input(Comments(reviews))
  /\ sanitized' = Len(reviews)
  /\ pc' = "CORPUS_BUILT"
  /\ UNCHANGED <<reviews, mood, rawSummary, summary, response, error, oracleArgs, built,
                 globalVars, threadVars, unitVars>>

\* summarize_reviews, lines 322-327: validate again, build the document, and
\* return "" when it is empty.
BuildCorpus ==
  /\ pc = "MOOD_SET"
  /\ LET e == validate_reviews(reviews)
         doc == build_summary_input(Comments(reviews))
     IN  IF e # NoError
         THEN /\ pc' = "REJECTED" /\ error' = e
              /\ UNCHANGED <<document, summary, sanitized>>
         ELSE /\ document' = doc
              /\ sanitized' = Len(reviews)
              /\ error' = error
              /\ IF doc = <<>>
                 THEN pc' = "EMPTY_CORPUS" /\ summary' = <<>>
                 ELSE pc' = "CORPUS_BUILT" /\ summary' = summary
  /\ UNCHANGED <<reviews, mood, rawSummary, response, oracleArgs, built, globalVars,
                 threadVars, unitVars>>

\* get_summarizer in the (single-threaded) handler: the pipeline is built when
\* the global is None, and that may fail.
LoadFails ==
  /\ pc = "CORPUS_BUILT"
  /\ SUMMARIZER = 0
  /\ pc' = "FAILED"
  /\ error' = [status |-> 500, limit |-> "pipeline", value |-> 0]
  /\ UNCHANGED <<reviews, mood, document, rawSummary, summary, response, sanitized,
                 oracleArgs, built, globalVars, threadVars, unitVars>>

\* The global after a successful get_summarizer (lines 36-38).
Loaded == IF SUMMARIZER = 0 THEN constructions + 1 ELSE SUMMARIZER

\* summarize_reviews, lines 329-330: get_summarizer succeeds and the Oracle is
\* invoked with the document; it returns a summary_text.
CallOracle ==
  /\ pc = "CORPUS_BUILT"
  /\ SUMMARIZER' = Loaded
  /\ built' = IF SUMMARIZER = 0 THEN built + 1 ELSE built
  /\ constructions' = IF SUMMARIZER = 0 THEN constructions + 1 ELSE constructions
  /\ oracleArgs' = Append(oracleArgs, document)
  /\ \E out \in OracleOutputs : rawSummary' = out
  /\ pc' = "ORACLE_CALLED"
  /\ UNCHANGED <<reviews, mood, document, summary, response, error, sanitized,
                 threadVars, unitVars>>

\* The same, with the invocation raising: the exception leaves the handler.
OracleFails ==
  /\ pc = "CORPUS_BUILT"
  /\ SUMMARIZER' = Loaded
  /\ built' = IF SUMMARIZER = 0 THEN built + 1 ELSE built
  /\ constructions' = IF SUMMARIZER = 0 THEN constructions + 1 ELSE constructions
  /\ oracleArgs' = Append(oracleArgs, document)
  /\ pc' = "FAILED"
  /\ error' = [status |-> 500, limit |-> "oracle", value |-> 0]
  /\ UNCHANGED <<reviews, mood, document, rawSummary, summary, response, sanitized,
                 threadVars, unitVars>>

\* summarize_reviews, lines 333-341.
PostProcessStep ==
  /\ pc = "ORACLE_CALLED"
  /\ summary' = PostProcess(rawSummary)
  /\ pc' = "POST_PROCESSED"
  /\ UNCHANGED <<reviews, mood, document, rawSummary, response, error, sanitized,
                 oracleArgs, built, globalVars, threadVars, unitVars>>

\* analyze, line 356.
Respond ==
  /\ pc \in {"EMPTY_CORPUS", "POST_PROCESSED"}
  /\ response' = [mood |-> mood, insightSummary |-> summary]
  /\ pc' = "DONE"
  /\ UNCHANGED <<reviews, mood, document, rawSummary, summary, error, sanitized,
                 oracleArgs, built, globalVars, threadVars, unitVars>>

\* The handler has returned or raised; the process lives on with its globals.
Finish ==
  /\ pc \in {"DONE", "REJECTED", "FAILED"}
  /\ pc' = "IDLE" /\ reviews' = <<>> /\ mood' = "" /\ document' = <<>>
  /\ rawSummary' = <<>> /\ summary' = <<>> /\ response' = NoResponse
  /\ error' = NoError /\ sanitized' = 0 /\ oracleArgs' = <<>> /\ built' = 0
  /\ UNCHANGED <<globalVars, threadVars, unitVars>>

Init == RequestIdle /\ GlobalInit /\ ThreadsIdle /\ UnitIdle

Next ==
  \/ Receive
  \/ Validate
  \/ ComputeMood
  \/ BuildCorpus
  \/ LoadFails
  \/ CallOracle
  \/ OracleFails
  \/ PostProcessStep
  \/ Respond
  \/ Finish

Spec == Init /\ [][Next]_vars

(***************************************************************************)
(* Claims about the request handler (specification Spec)                   *)
(***************************************************************************)
Passed == pc \in {"EMPTY_CORPUS", "ORACLE_CALLED", "POST_PROCESSED", "DONE", "FAILED"}

\* What C1 says of every request past validation whose document is empty.
EmptyDocumentCase ==
  (Passed /\ document = <<>>) =>
     /\ oracleArgs = <<>>
     /\ built = 0
     /\ summary = <<>>
     /\ pc # "FAILED"
     /\ (pc = "DONE" => response.insightSummary = <<>>)

\* No second invocation, and a failure reaches the caller as a failure.
NoRetry ==
  /\ Len(oracleArgs) <= 1
  /\ (pc = "FAILED" => error.status = 500 /\ response = NoResponse)

\* C1, as stated: for every request that passes validation the Oracle is invoked
\* 0 times when the document is empty (the summary is then empty and no Oracle
\* is built), and exactly once, with the document, when it is not; a failure is
\* not retried and reaches the caller as a failure.
C1_OneInvocationPerDocument ==
  /\ EmptyDocumentCase
  /\ (Passed /\ document # <<>>) => oracleArgs = <<document>>
  /\ NoRetry

\* C1, amended: with a non-empty document the Oracle is invoked exactly once
\* with the document unless building the Oracle itself fails; then it is not
\* invoked at all and that failure reaches the caller.
C1_OneInvocationUnlessLoadFails ==
  /\ EmptyDocumentCase
  /\ (Passed /\ document # <<>>) =>
       IF pc = "FAILED" /\ error.limit = "pipeline"
       THEN oracleArgs = <<>> /\ built = 0 /\ SUMMARIZER = 0
       ELSE oracleArgs = <<document>> /\ SUMMARIZER # 0
  /\ NoRetry

\* A request whose Oracle invocation failed, after one invocation.
C1_Witness ==
  /\ pc = "FAILED" /\ error.limit = "oracle"
  /\ oracleArgs = <<document>> /\ document # <<>>

TooMany(rs) == Len(rs) > MAX_REVIEWS
TooLong(rs) == \E i \in 1..Len(rs) : Len(Strip(rs[i].comment)) > MAX_COMMENT_LEN

\* C2: a request is rejected, with a 400 that carries the configured value of
\* the violated limit, exactly when it has more than MAX_REVIEWS reviews or a
\* comment whose trimmed length exceeds MAX_COMMENT_LEN; a rejected request has
\* had nothing sanitized, built, loaded, invoked or answered.
C2_RejectedIffOverLimit ==
  /\ pc = "REJECTED" =>
       /\ TooMany(reviews) \/ TooLong(reviews)
       /\ error.status = 400
       /\ IF TooMany(reviews)
          THEN error.limit = "reviews exceeds limit" /\ error.value = MAX_REVIEWS
          ELSE error.limit = "comment too long" /\ error.value = MAX_COMMENT_LEN
       /\ sanitized = 0 /\ document = <<>> /\ oracleArgs = <<>> /\ built = 0
       /\ mood = "" /\ summary = <<>> /\ response = NoResponse
  /\ pc \notin {"IDLE", "RECEIVED", "REJECTED"} =>
       ~TooMany(reviews) /\ ~TooLong(reviews)

\* A request of exactly MAX_REVIEWS reviews rejected for a comment one
\* character over the limit.
C2_Witness ==
  /\ pc = "REJECTED" /\ Len(reviews) = MAX_REVIEWS
  /\ error.limit = "comment too long"
  /\ \E i \in 1..Len(reviews) : reviews[i].comment = LongComment

\* A request at both limits that was accepted and answered.
C2_WitnessAccepted ==
  /\ pc = "DONE" /\ Len(reviews) = MAX_REVIEWS
  /\ \A i \in 1..Len(reviews) : reviews[i].comment = PaddedComment

\* The tone the ratings call for, on the sum and the count of the ratings.
ExpectedMood(ratings) ==
  IF Len(ratings) = 0 THEN "jungnip"
  ELSE IF SumSeq(ratings) >= 4 * Len(ratings) THEN "geungjeongjeok"
  ELSE IF SumSeq(ratings) <= 2 * Len(ratings) THEN "bujeongjeok"
  ELSE "jungnip"

Enter(t) ==
  /\ tpc[t] = "idle"
  /\ tpc' = [tpc EXCEPT ![t] = "test"]
  /\ UNCHANGED <<tlocal, tgot, requestVars, globalVars, unitVars>>

\* Line 36: if _SUMMARIZER is None.
TestNone(t) ==
  /\ tpc[t] = "test"
  /\ tpc' = [tpc EXCEPT ![t] = IF SUMMARIZER = 0 THEN "build" ELSE "return"]
  /\ UNCHANGED <<tlocal, tgot, requestVars, globalVars, unitVars>>

\* Line 37, right-hand side: pipeline("summarization", model=MODEL_NAME).
Build(t) ==
  /\ tpc[t] = "build"
  /\ constructions' = constructions + 1
  /\ tlocal' = [tlocal EXCEPT ![t] = constructions + 1]
  /\ tpc' = [tpc EXCEPT ![t] = "store"]
  /\ UNCHANGED <<tgot, SUMMARIZER, requestVars, unitVars>>

\* Line 37, the store to the global.
Store(t) ==
  /\ tpc[t] = "store"
  /\ SUMMARIZER' = tlocal[t]
  /\ tpc' = [tpc EXCEPT ![t] = "return"]
  /\ UNCHANGED <<tlocal, tgot, constructions, requestVars, unitVars>>

\* Line 38: return _SUMMARIZER.
Return(t) ==
  /\ tpc[t] = "return"
  /\ tgot' = [tgot EXCEPT ![t] = SUMMARIZER]
  /\ tpc' = [tpc EXCEPT ![t] = "done"]
  /\ UNCHANGED <<tlocal, globalVars, requestVars, unitVars>>

LazyNext == \E t \in Threads : Enter(t) \/ TestNone(t) \/ Build(t) \/ Store(t) \/ Return(t)

SpecLazy == Init /\ [][LazyNext]_vars

\* C3: under any interleaving of first-use callers the pipeline is built at
\* most once, and all callers are handed the same instance.
C3_BuiltOnceSharedByAll ==
  /\ constructions <= 1
  /\ \A t, u \in Threads :
       (tpc[t] = "done" /\ tpc[u] = "done") => (tgot[t] = tgot[u] /\ tgot[t] # 0)

(***************************************************************************)
(* _dedupe_keep_order alone (specification SpecDedupe)                     *)
(***************************************************************************)
DedupePool == {<<"a">>, <<"A">>, <<" ", "a">>, <<"a", " ">>, <<"b">>, <<>>, <<" ">>}

\* The longest input list.
MaxItems == 3

DedupeInputs == UNION {[1..n -> DedupePool] : n \in 0..MaxItems}

DedupeInit ==
  /\ RequestIdle /\ GlobalInit /\ ThreadsIdle
  /\ phase = "input" /\ arg \in DedupeInputs /\ res = <<>> /\ res2 = <<>>

DedupeApply ==
  /\ phase = "input"
  /\ res' = dedupe_keep_order(arg)
  /\ phase' = "applied"
  /\ UNCHANGED <<arg, res2, requestVars, globalVars, threadVars>>

DedupeReapply ==
  /\ phase = "applied"
  /\ res2' = dedupe_keep_order(res)
  /\ phase' = "reapplied"
  /\ UNCHANGED <<arg, res, requestVars, globalVars, threadVars>>

DedupeNext == DedupeApply \/ DedupeReapply

SpecDedupe == DedupeInit /\ [][DedupeNext]_vars

\* The positions of the first occurrence of each non-empty trimmed value.
FirstIdx(items) ==
  {i \in 1..Len(items) :
     /\ Strip(items[i]) # <<>>
     /\ \A j \in 1..(i - 1) : Strip(items[j]) # Strip(items[i])}

\* The entries at the positions I, in increasing order of position.
RECURSIVE PickIdx(_, _)
PickIdx(items, I) ==
  IF I = {} THEN <<>>
  ELSE LET i == SetMin(I) IN <<items[i]>> \o PickIdx(items, I \ {i})

Trimmed(items) == [i \in 1..Len(items) |-> Strip(items[i])]

Applied == phase \in {"applied", "reapplied"}

\* C6, as stated: the result is the sequence of the trimmed, non-empty,
\* pairwise distinct values in the order of their first occurrence, and the
\* operation returns its own output unchanged.
C6_TrimmedFirstOccurrences ==
  /\ Applied => res = Trimmed(PickIdx(arg, FirstIdx(arg)))
  /\ phase = "reapplied" => res2 = res

\* C6, amended: the result holds the entries themselves, as given, at the
\* first occurrence of each non-empty trimmed value, in input order; their
\* trimmed values are non-empty and pairwise distinct, every non-empty trimmed
\* value of the input is among them, and the operation returns its own output
\* unchanged.
C6_FirstOccurrencesAsGiven ==
  /\ Applied =>
       /\ res = PickIdx(arg, FirstIdx(arg))
       /\ \A i \in 1..Len(res) : Strip(res[i]) # <<>>
       /\ \A i, j \in 1..Len(res) : i # j => Strip(res[i]) # Strip(res[j])
       /\ \A i \in 1..Len(arg) :
            Strip(arg[i]) # <<>> => \E k \in 1..Len(res) : Strip(res[k]) = Strip(arg[i])
  /\ phase = "reapplied" => res2 = res

\* An input whose first entry carries a blank and recurs trimmed, and differs
\* in case from another: two entries are kept, the first one untrimmed.
C6_Witness ==
  /\ phase = "reapplied"
  /\ arg = << <<" ", "a">>, <<"a">>, <<"A">> >>
  /\ res = << <<" ", "a">>, <<"A">> >>

(***************************************************************************)
(* _build_summary_input alone (specification SpecCorpus)                   *)
(***************************************************************************)
CorpusPool == {
  <<"x", "x">>,
  <<" ", "x", "x", " ">>,
  <<"x", "x", "x">>,
  <<"x", " ", "y">>,
  <<"y", "y", "y", "y", "y">>,
  <<"u", "s", "e", "r", ":", "x">> }

\* The most reviews of an input.
MaxCorpusReviews == 3

CorpusInputs == UNION {[1..n -> CorpusPool] : n \in 0..MaxCorpusReviews}

CorpusInit ==
  /\ RequestIdle /\ GlobalInit /\ ThreadsIdle
  /\ phase = "input" /\ arg \in CorpusInputs /\ res = <<>> /\ res2 = <<>>

CorpusBuild ==
  /\ phase = "input"
  /\ res' = build_summary_input(arg)
  /\ phase' = "applied"
  /\ UNCHANGED <<arg, res2, requestVars, globalVars, threadVars>>

SpecCorpus == CorpusInit /\ [][CorpusBuild]_vars

\* The sanitized, deduplicated comments of the input.
CorpusParts(comments) == dedupe_keep_order(CollectParts(comments))

RECURSIVE SumLen(_)
SumLen(parts) == IF parts = <<>> THEN 0 ELSE Len(Head(parts)) + SumLen(Tail(parts))

\* The length of the parts joined by the two-character blank-line separator.
JoinedLen(parts) == IF parts = <<>> THEN 0 ELSE SumLen(parts) + 2 * (Len(parts) - 1)

\* The length of a document without its task directive.
DocLen(doc) == IF doc = <<>> THEN 0 ELSE Len(doc) - Len(TASK_PREFIX)

MinOf(a, b) == IF a <= b THEN a ELSE b

\* The number of whitespace characters that end s.
RECURSIVE TrailingWS(_)
TrailingWS(s) ==
  IF s = <<>> \/ s[Len(s)] \notin WS THEN 0 ELSE 1 + TrailingWS(SubSeq(s, 1, Len(s) - 1))

\* C4, as stated: without its directive the document is min(budget, length of
\* the joined comments) characters long.
C4_LengthIsMinOfBudgetAndJoined ==
  phase = "applied" =>
     /\ res # <<>> => StartsWith(res, TASK_PREFIX)
     /\ DocLen(res) = MinOf(CorpusBudget, JoinedLen(CorpusParts(arg)))

\* C4, amended: without its directive the document is as long as the first
\* min(budget, length) characters of the joined comments less the whitespace
\* that ends them; it never exceeds the budget, and it is exactly the budget
\* when the joined text is longer and its budget-th character is no whitespace.
C4_LengthIsTrimmedCut ==
  phase = "applied" =>
     LET parts == CorpusParts(arg)
         n == JoinedLen(parts)
         joined == Join(parts, PARA_SEP)
         cut == Slice(joined, 1, MinOf(CorpusBudget, n))
     IN  /\ Len(joined) = n
         /\ res # <<>> => StartsWith(res, TASK_PREFIX)
         /\ DocLen(res) = MinOf(CorpusBudget, n) - TrailingWS(cut)
         /\ DocLen(res) <= CorpusBudget
         /\ n <= CorpusBudget => DocLen(res) = n
         /\ (n > CorpusBudget /\ joined[CorpusBudget] \notin WS) => DocLen(res) = CorpusBudget

\* Comments whose joined text is over the budget and is cut inside a
\* separator: the document is shorter than the budget.
C4_Witness ==
  /\ phase = "applied"
  /\ JoinedLen(CorpusParts(arg)) > CorpusBudget
  /\ DocLen(res) < CorpusBudget
  /\ res # <<>>

(***************************************************************************)
(* _sanitize_text alone (specification SpecSanitize)                       *)
(*                                                                         *)
(* A comment is made of lines.  Each line of the pool comes with what is   *)
(* to be left of it: nothing for a blank or an injected line, the line     *)
(* itself, with its noise and whitespace runs turned into single spaces,   *)
(* for any other.                                                          *)
(***************************************************************************)
NEXT_WORD == <<"DA", "EUM">>
SUMMARY_WORD == <<"YO", "YAK">>
ORGANIZE_WORD == <<"JEONG", "RI">>
PLEASE_DO == <<"HA", "SE", "YO">>
GOOD_COURSE == <<"JOH", "EUN", " ", "GANG", "UI">>

Injected(text, why) == [text |-> text, keep |-> <<>>, cls |-> why]
Genuine(text, keep) == [text |-> text, keep |-> keep, cls |-> "genuine"]

LinePool == {
  Injected(<<"u", "s", "e", "r", ":", " ", "x">>, "prefix"),
  Injected(<<" ", "S", "y", "s", "t", "e", "m", ":", " ", "x">>, "prefix"),
  Injected(<<"BQ", "r", "o", "l", "e", ":", "x">>, "prefix"),
  Injected(SUMMARY_WORD \o <<"HAE", "JWO">>, "prefix"),
  Injected(NEXT_WORD \o Filler(GapMax) \o SUMMARY_WORD, "pattern"),
  Injected(<<"x">> \o ORGANIZE_WORD \o Filler(GapMax) \o PLEASE_DO, "pattern"),
  Genuine(NEXT_WORD \o Filler(GapMax + 1) \o SUMMARY_WORD,
          NEXT_WORD \o Filler(GapMax + 1) \o SUMMARY_WORD),
  Genuine(<<"x">> \o ORGANIZE_WORD \o Filler(GapMax + 1) \o PLEASE_DO,
          <<"x">> \o ORGANIZE_WORD \o Filler(GapMax + 1) \o PLEASE_DO),
  Genuine(GOOD_COURSE, GOOD_COURSE),
  Genuine(<<"x">>, <<"x">>),
  Genuine(NEXT_WORD, NEXT_WORD),
  Genuine(SUMMARY_WORD \o <<" ", "JOH">>, SUMMARY_WORD \o <<" ", "JOH">>),
  Genuine(SUMMARY_WORD \o <<" ", " ", "GYEOL", "GWA", ":", "x">>,
          SUMMARY_WORD \o <<" ", "GYEOL", "GWA", ":", "x">>),
  Genuine(<<"JOH", "<", "s", ">", "EUN", "#", "#", "#">>, <<"JOH", " ", "EUN">>),
  Genuine(<<"JOH", "BQ", "BQ", "BQ", "x", "BQ", "BQ", "BQ", "EUN">>, <<"JOH", " ", "EUN">>),
  [text |-> <<" ", "\t">>, keep |-> <<>>, cls |-> "blank"] }

\* The most lines of a comment.
MaxLines == 2

SanitizeInputs == UNION {[1..n -> LinePool] : n \in 0..MaxLines}

Texts(lines) == [i \in 1..Len(lines) |-> lines[i].text]

\* The comment: its lines, each ended by a newline but the last.
RawComment(lines) == Join(Texts(lines), <<"\n">>)

SanitizeInit ==
  /\ RequestIdle /\ GlobalInit /\ ThreadsIdle
  /\ phase = "input" /\ arg \in SanitizeInputs /\ res = <<>> /\ res2 = <<>>

SanitizeApply ==
  /\ phase = "input"
  /\ res' = sanitize_text(RawComment(arg))
  /\ phase' = "applied"
  /\ UNCHANGED <<arg, res2, requestVars, globalVars, threadVars>>

SanitizeReapply ==
  /\ phase = "applied"
  /\ res2' = sanitize_text(res)
  /\ phase' = "reapplied"
  /\ UNCHANGED <<arg, res, requestVars, globalVars, threadVars>>

SanitizeNext == SanitizeApply \/ SanitizeReapply

SpecSanitize == SanitizeInit /\ [][SanitizeNext]_vars

\* What is to be left of the lines, in order, with single spaces between.
RECURSIVE KeptText(_)
KeptText(lines) ==
  IF lines = <<>> THEN <<>>
  ELSE LET rest == KeptText(Tail(lines))
           k == Head(lines).keep
       IN  IF k = <<>> THEN rest
           ELSE IF rest = <<>> THEN k
           ELSE k \o <<" ">> \o rest

\* C7: of the lines of a comment (taken after code fences, backquotes, model
\* tokens and heading marks have been blanked) those that start, lowercased
\* and trimmed, with a denylisted prefix or match an instructive pattern are
\* dropped, the other non-blank ones are kept in order with single spaces
\* between them; only injected lines leave the empty string, and so does a
\* result of fewer than 2 characters.
C7_InjectedLinesDroppedOthersKept ==
  Applied =>
     /\ res = (IF Len(KeptText(arg)) < 2 THEN <<>> ELSE KeptText(arg))
     /\ (\A i \in 1..Len(arg) : arg[i].cls \in {"prefix", "pattern"}) => res = <<>>

\* A comment of one injected line (capitalised, after a blank) and one genuine
\* sentence: the genuine sentence alone is left.
C7_Witness ==
  /\ Applied
  /\ Len(arg) = 2
  /\ arg[1].cls = "prefix" /\ arg[1].text[2] = "S"
  /\ arg[2].text = GOOD_COURSE
  /\ res = GOOD_COURSE

\* C10: what _sanitize_text returns is clean (it neither starts with a
\* denylisted prefix nor matches an instructive pattern) and sanitizing it
\* again returns it unchanged.
C10_OutputIsCleanAndStable ==
  /\ Applied => (res = <<>> \/ ~IsDroppedLine(res))
  /\ phase = "reapplied" => res2 = res

(***************************************************************************)
(* convert_to_polite on one sentence (specification SpecPolite)            *)
(***************************************************************************)
PlainEndings == {SuffixRules[k][1] : k \in 1..Len(SuffixRules)}

Stems == {<<>>, <<"x">>, <<"x", " ", "y">>, <<"JOH", "DA", " ">>}
SentenceTerms == {<<>>, <<".">>, <<"?">>, <<"!">>}

\* A sentence: a stem, a formal or a plain ending, and terminal punctuation
\* or none.
Sentences == [stem : Stems, ending : FormalEndings \cup PlainEndings, term : SentenceTerms]

SentenceText(x) == x.stem \o x.ending \o x.term

PoliteInit ==
  /\ RequestIdle /\ GlobalInit /\ ThreadsIdle
  /\ phase = "input" /\ arg \in Sentences /\ res = <<>> /\ res2 = <<>>

PoliteApply ==
  /\ phase = "input"
  /\ res' = convert_to_polite(SentenceText(arg))
  /\ phase' = "applied"
  /\ UNCHANGED <<arg, res2, requestVars, globalVars, threadVars>>

SpecPolite == PoliteInit /\ [][PoliteApply]_vars

\* The formal ending a plain ending is rewritten to.
FormalOf(e) == LET k == CHOOSE k \in 1..Len(SuffixRules) : SuffixRules[k][1] = e
               IN  SuffixRules[k][2]

\* Two terminators in a row.
DuplicatedTerminal(t) ==
  \E i \in 1..(Len(t) - 1) : t[i] \in Terminators /\ t[i + 1] \in Terminators

\* C9: a sentence with a formal ending comes back unchanged, with or without
\* its terminal punctuation; a sentence with a plain ending comes back with
\* that ending rewritten to its formal equivalent, and with a period appended
\* when it had no terminal punctuation; the output never carries duplicated
\* terminal punctuation.
C9_FormalKeptPlainRewritten ==
  phase = "applied" =>
     /\ arg.ending \in FormalEndings => res = SentenceText(arg)
     /\ arg.ending \in PlainEndings =>
          res = arg.stem \o FormalOf(arg.ending) \o (IF arg.term = <<>> THEN <<".">> ELSE arg.term)
     /\ ~DuplicatedTerminal(res)

(***************************************************************************)
(* The post-processing chain and its steps (specification SpecPost)        *)
(***************************************************************************)
SegmentPool == {
  <<"JOH", "DA">>, <<"JOH", "SEUP", "NI", "DA">>, <<"x", "y">>,
  <<".">>, <<"?", "!">>, <<",">>, <<" ">>, <<"x">> }

\* The most segments of an Oracle output.
MaxSegments == 3

RECURSIVE Concat(_)
Concat(segs) == IF segs = <<>> THEN <<>> ELSE Head(segs) \o Concat(Tail(segs))

PostInputs == {Concat(segs) : segs \in UNION {[1..n -> SegmentPool] : n \in 1..MaxSegments}}

\* Each step, and the chain, on the same text.
Steps(x) ==
  [normalize |-> normalize_whitespace(x),
   polite    |-> convert_to_polite(x),
   spacing   |-> fix_korean_spacing(x),
   finalize  |-> finalize_punctuation_spacing(x),
   chain     |-> PostProcess(x)]

PostInit ==
  /\ RequestIdle /\ GlobalInit /\ ThreadsIdle
  /\ phase = "input" /\ arg \in PostInputs /\ res = <<>> /\ res2 = <<>>

PostApply ==
  /\ phase = "input"
  /\ res' = Steps(arg)
  /\ phase' = "applied"
  /\ UNCHANGED <<arg, res2, requestVars, globalVars, threadVars>>

\* Each step, and the chain, on its own output.
PostReapply ==
  /\ phase = "applied"
  /\ res2' = [normalize |-> normalize_whitespace(res.normalize),
              polite    |-> convert_to_polite(res.polite),
              spacing   |-> fix_korean_spacing(res.spacing),
              finalize  |-> finalize_punctuation_spacing(res.finalize),
              chain     |-> PostProcess(res.chain)]
  /\ phase' = "reapplied"
  /\ UNCHANGED <<arg, res, requestVars, globalVars, threadVars>>

PostNext == PostApply \/ PostReapply

SpecPost == PostInit /\ [][PostNext]_vars

\* C8: the chain returns its own output unchanged, and so does each of its
\* steps applied alone.
C8_ChainAndStepsIdempotent ==
  phase = "reapplied" =>
     /\ res2.chain = res.chain
     /\ res2.normalize = res.normalize
     /\ res2.polite = res.polite
     /\ res2.spacing = res.spacing
     /\ res2.finalize = res.finalize

====
